---- MODULE Spec2Model ----
(***************************************************************************)
(* Model of src-tauri/src/permission_prompt.rs: the permission broker.     *)
(*                                                                         *)
(* Processes                                                               *)
(*   - the callers of start_server, stop_server, rekey_server,             *)
(*     resolve_prompt and set_mcp_paths.  Apart from the first half of     *)
(*     start_server every one of these functions runs from its first       *)
(*     statement to its return under the registry Mutex, so at most one    *)
(*     caller is past its first statement at a time: `call` is that        *)
(*     caller (or the last one to return), and callers still queued on     *)
(*     the Mutex have done nothing yet.  The callers that have spawned a   *)
(*     listener and not yet registered it are the set `starting`;          *)
(*   - requests: one run of handle_permission_prompt per HTTP request;     *)
(*   - one listener task per endpoint (the task spawned by start_server).  *)
(*                                                                         *)
(* Every `.lock().await` is enabled only when the tokio Mutex is free.  A  *)
(* request takes a lock in one step and runs the synchronous code up to    *)
(* the drop of the guard in the next.  Wall-clock time is abstracted: the  *)
(* 300 s timer of a suspended request may elapse at any moment.            *)
(***************************************************************************)
EXTENDS Integers, FiniteSets, Sequences, TLC

\* ---------------------------------------------------------------- bounds
NumSessions  == 2      \* distinct session identifiers in use
MaxEndpoints == 2      \* start_server calls that reach bind
MaxReqs      == 2      \* HTTP requests (prompts) ever accepted
\* the smaller caps of the specifications at the end of the module
PromptsEndpoints   == 1
RegistryReqs       == 1
ArtifactsEndpoints == 1
ArtifactsReqs      == 1

SessionIds == 1..NumSessions
Endpoints  == 1..MaxEndpoints
Reqs       == 1..MaxReqs

\* Option::None for a registry slot / a caller's local `entry`
NoEntry == 0

\* ------------------------------------------------- PermissionResponse
NoResp == [behavior |-> "none", updated_input |-> "none", message |-> "none"]
Allow == [behavior |-> "allow", updated_input |-> "input", message |-> "none"]
UserDeny ==
    [behavior |-> "deny", updated_input |-> "none", message |-> "denied by user"]
TimeoutDeny ==
    [behavior |-> "deny", updated_input |-> "none",
     message |-> "Permission prompt timed out"]
\* the decisions a frontend passes to resolve_prompt
Decisions == {Allow, UserDeny}

\* artifact paths: PathBuf::new() is the empty path
EmptyPath == "empty"
Paths == {"tmpfiles"}

VARIABLES
    servers,     \* PermissionServerRegistry.servers: session id -> entry
    regLock,     \* the registry Mutex is held
    call,        \* the caller holding the registry Mutex, or the last to return
    starting,    \* endpoints spawned by a start_server that has not registered yet
    nextEp,      \* endpoints created so far
    port,        \* entry.port
    sidArc,      \* entry.session_id / HttpState.session_id (shared Arc)
    pending,     \* entry.pending / HttpState.pending: prompt ids with a stored Sender
    pendLock,    \* that Mutex is held
    sidLock,     \* the Mutex of the session-id Arc is held
    shutdown,    \* value of the watch channel
    txAlive,     \* entry.shutdown_tx not yet dropped
    serving,     \* the spawned axum task still accepts connections
    paths,       \* entry.mcp_config_path / mcp_script_path
    cleaned,     \* cleanup_temp_files has run for the entry
    nextReq,     \* requests accepted so far
    hpc,         \* per request: position in handle_permission_prompt
    hep,         \* per request: the endpoint whose HttpState it was handed
    hsid,        \* per request: local `session_id` (line 169)
    hguard,      \* per request: the MutexGuard it owns ("none" if none)
    chan,        \* per request: the oneshot channel
    hres,        \* per request: the Result returned, its body, and why
    okCount      \* per request: resolve_prompt calls that returned Ok(())

regVars == <<servers, regLock, call, starting>>
epVars == <<nextEp, port, sidArc, pending, pendLock, sidLock, shutdown, txAlive,
            serving, paths, cleaned>>
reqVars == <<nextReq, hpc, hep, hsid, hguard, chan, hres>>
vars == <<regVars, epVars, reqVars, okCount>>

\* ------------------------------------------------------- oneshot channel
\* tx: "alive" (sender exists, nothing sent), "sent" (send returned Ok),
\*     "dropped" (sender dropped without a value)
\* rx: TRUE while the Receiver exists; val: the value in the cell
NewChan == [tx |-> "alive", rx |-> TRUE, val |-> NoResp]

IdleCall == [pc |-> "idle", op |-> "none", sid |-> 0, new |-> 0, pid |-> 0,
             dec |-> NoResp, ent |-> NoEntry, res |-> "none"]

Init ==
    /\ servers = [s \in SessionIds |-> NoEntry]
    /\ regLock = FALSE
    /\ call = IdleCall
    /\ starting = {}
    /\ nextEp = 0
    /\ port = [e \in Endpoints |-> 0]
    /\ sidArc = [e \in Endpoints |-> 0]
    /\ pending = [e \in Endpoints |-> {}]
    /\ pendLock = [e \in Endpoints |-> FALSE]
    /\ sidLock = [e \in Endpoints |-> FALSE]
    /\ shutdown = [e \in Endpoints |-> FALSE]
    /\ txAlive = [e \in Endpoints |-> FALSE]
    /\ serving = [e \in Endpoints |-> FALSE]
    /\ paths = [e \in Endpoints |-> EmptyPath]
    /\ cleaned = [e \in Endpoints |-> FALSE]
    /\ nextReq = 0
    /\ hpc = [r \in Reqs |-> "idle"]
    /\ hep = [r \in Reqs |-> NoEntry]
    /\ hsid = [r \in Reqs |-> 0]
    /\ hguard = [r \in Reqs |-> "none"]
    /\ chan = [r \in Reqs |-> NewChan]
    /\ hres = [r \in Reqs |-> [result |-> "none", resp |-> NoResp, why |-> "none"]]
    /\ okCount = [r \in Reqs |-> 0]

\* ------------------------------------------------------------- helpers
\* a caller inside a function, holding the registry Mutex
Running(op, s, n, p, d, e, pc) ==
    [pc |-> pc, op |-> op, sid |-> s, new |-> n, pid |-> p, dec |-> d,
     ent |-> e, res |-> "none"]

\* a caller that has returned `res` (its locals are gone)
Returned(op, s, n, p, res) ==
    [pc |-> "returned", op |-> op, sid |-> s, new |-> n, pid |-> p,
     dec |-> NoResp, ent |-> NoEntry, res |-> res]

\* HashMap::insert(key, entry) on the registry: the entry previously under
\* the key is returned and dropped on the spot, which drops its shutdown_tx
\* (its `pending` map survives: the router's HttpState holds another Arc)
Evict(alive, old, e) ==
    IF old # NoEntry /\ old # e THEN [alive EXCEPT ![old] = FALSE] ELSE alive

\* dropping every Sender of a set of prompts without sending
DropSenders(ch, ps) ==
    [r \in Reqs |-> IF r \in ps /\ ch[r].tx = "alive"
                    THEN [ch[r] EXCEPT !.tx = "dropped"] ELSE ch[r]]

\* ------------------------------------------------------- start_server
\* lines 82-133: fresh pending table, watch channel, session-id Arc, bind,
\* spawn of the serving task.  (A failed bind returns the error at line
\* 102 or 106 before any shared state exists; it is no step of the model.)
StartSpawn(s) ==
    /\ nextEp < MaxEndpoints
    /\ LET e == nextEp + 1 IN
        /\ nextEp' = e
        /\ port' = [port EXCEPT ![e] = e]
        /\ sidArc' = [sidArc EXCEPT ![e] = s]
        /\ pending' = [pending EXCEPT ![e] = {}]
        /\ shutdown' = [shutdown EXCEPT ![e] = FALSE]
        /\ txAlive' = [txAlive EXCEPT ![e] = TRUE]
        /\ serving' = [serving EXCEPT ![e] = TRUE]
        /\ starting' = starting \cup {e}
    /\ UNCHANGED <<servers, regLock, call, pendLock, sidLock, paths, cleaned, reqVars,
                   okCount>>

\* an insert that also clears the table of the entry it replaces
StartRegisterClear(e) ==
    /\ e \in starting
    /\ ~regLock
    /\ LET s == sidArc[e]
           old == servers[s] IN
        /\ servers' = [servers EXCEPT ![s] = e]
        /\ txAlive' = Evict(txAlive, old, e)
        /\ call' = Returned("start", s, 0, 0, "Ok")
        /\ IF old # NoEntry
           THEN /\ chan' = DropSenders(chan, pending[old])
                /\ pending' = [pending EXCEPT ![old] = {}]
           ELSE UNCHANGED <<chan, pending>>
    /\ starting' = starting \ {e}
    /\ UNCHANGED <<regLock, nextEp, port, sidArc, pendLock, sidLock, shutdown,
                   serving, paths, cleaned, nextReq, hpc, hep, hsid, hguard,
                   hres, okCount>>

\* lines 136-151: lock the registry, insert under session_id, unlock.
\* The caller's `session_id` is the value it put in the Arc, which nobody
\* can have rewritten: the Arc is reachable only through the registry.
StartRegister(e) ==
    /\ e \in starting
    /\ ~regLock
    /\ LET s == sidArc[e] IN
        /\ servers' = [servers EXCEPT ![s] = e]
        /\ txAlive' = Evict(txAlive, servers[s], e)
        /\ call' = Returned("start", s, 0, 0, "Ok")
    /\ starting' = starting \ {e}
    /\ UNCHANGED <<regLock, nextEp, port, sidArc, pending, pendLock, sidLock, shutdown,
                   serving, paths, cleaned, reqVars, okCount>>

\* lines 117-133: the spawned task leaves axum::serve once the watch value
\* is true or the watch Sender is gone
ListenerShutdown(e) ==
    /\ serving[e]
    /\ shutdown[e] \/ ~txAlive[e]
    /\ serving' = [serving EXCEPT ![e] = FALSE]
    /\ UNCHANGED <<regVars, nextEp, port, sidArc, pending, pendLock, sidLock, shutdown,
                   txAlive, paths, cleaned, reqVars, okCount>>

\* -------------------------------------------------------- stop_server
\* a stop that falls back to some registered entry when session_id is unknown
StopLockAny(s) ==
    /\ ~regLock
    /\ LET known == {a \in SessionIds : servers[a] # NoEntry}
           k == IF servers[s] = NoEntry /\ known # {}
                THEN CHOOSE a \in known : TRUE ELSE s
           e == servers[k] IN
        IF e = NoEntry
        THEN /\ call' = Returned("stop", s, 0, 0, "NoSession")
             /\ UNCHANGED <<servers, regLock, shutdown>>
        ELSE /\ servers' = [servers EXCEPT ![k] = NoEntry]
             /\ regLock' = TRUE
             /\ shutdown' = [shutdown EXCEPT ![e] = TRUE]
             /\ call' = Running("stop", s, 0, 0, NoResp, e, "stop_pending")
    /\ UNCHANGED <<starting, nextEp, port, sidArc, pending, pendLock, sidLock, txAlive,
                   serving, paths, cleaned, reqVars, okCount>>

\* lines 207-210: lock the registry, remove the entry; None ends the call,
\* Some(entry) sends `true` on the watch channel
StopLock(s) ==
    /\ ~regLock
    /\ LET e == servers[s] IN
        IF e = NoEntry
        THEN /\ call' = Returned("stop", s, 0, 0, "NoSession")
             /\ UNCHANGED <<servers, regLock, shutdown>>
        ELSE /\ servers' = [servers EXCEPT ![s] = NoEntry]
             /\ regLock' = TRUE
             /\ shutdown' = [shutdown EXCEPT ![e] = TRUE]
             /\ call' = Running("stop", s, 0, 0, NoResp, e, "stop_pending")
    /\ UNCHANGED <<starting, nextEp, port, sidArc, pending, pendLock, sidLock, txAlive,
                   serving, paths, cleaned, reqVars, okCount>>

\* lines 213-214: lock the pending table (registry lock still held) and
\* clear it, dropping every stored Sender
StopClear ==
    /\ call.pc = "stop_pending"
    /\ LET e == call.ent IN
        /\ ~pendLock[e]
        /\ pendLock' = [pendLock EXCEPT ![e] = TRUE]
        /\ chan' = DropSenders(chan, pending[e])
        /\ pending' = [pending EXCEPT ![e] = {}]
    /\ call' = [call EXCEPT !.pc = "stop_cleanup"]
    /\ UNCHANGED <<servers, regLock, starting, nextEp, port, sidArc, sidLock,
                   shutdown, txAlive, serving, paths, cleaned, nextReq, hpc, hep,
                   hsid, hguard, hres, okCount>>

\* lines 217-224: cleanup_temp_files under both locks, then the scope ends:
\* the pending guard, the entry (with its shutdown_tx) and the registry
\* guard are dropped
StopCleanup ==
    /\ call.pc = "stop_cleanup"
    /\ LET e == call.ent IN
        /\ cleaned' = [cleaned EXCEPT ![e] = TRUE]
        /\ pendLock' = [pendLock EXCEPT ![e] = FALSE]
        /\ txAlive' = [txAlive EXCEPT ![e] = FALSE]
    /\ regLock' = FALSE
    /\ call' = Returned("stop", call.sid, 0, 0, "Ok")
    /\ UNCHANGED <<servers, starting, nextEp, port, sidArc, pending, sidLock,
                   shutdown, serving, paths, reqVars, okCount>>


\* ------------------------------------------------------- rekey_server
\* a rekey that also signals shutdown, as stop_server does after its remove
RekeyLockShutdown(old, new) ==
    /\ ~regLock
    /\ LET e == servers[old] IN
        IF e = NoEntry
        THEN /\ call' = Returned("rekey", old, new, 0, "NoSession")
             /\ UNCHANGED <<servers, regLock, shutdown>>
        ELSE /\ servers' = [servers EXCEPT ![old] = NoEntry]
             /\ regLock' = TRUE
             /\ shutdown' = [shutdown EXCEPT ![e] = TRUE]
             /\ call' = Running("rekey", old, new, 0, NoResp, e, "rekey_sid")
    /\ UNCHANGED <<starting, nextEp, port, sidArc, pending, pendLock, sidLock, txAlive,
                   serving, paths, cleaned, reqVars, okCount>>

\* lines 234-235: lock the registry, remove the entry under old_id
RekeyLock(old, new) ==
    /\ ~regLock
    /\ LET e == servers[old] IN
        IF e = NoEntry
        THEN /\ call' = Returned("rekey", old, new, 0, "NoSession")
             /\ UNCHANGED <<servers, regLock>>
        ELSE /\ servers' = [servers EXCEPT ![old] = NoEntry]
             /\ regLock' = TRUE
             /\ call' = Running("rekey", old, new, 0, NoResp, e, "rekey_sid")
    /\ UNCHANGED <<starting, epVars, reqVars, okCount>>

\* a rekey that moves the entry and leaves the shared session id as it was
RekeySidStale ==
    /\ call.pc = "rekey_sid"
    /\ ~sidLock[call.ent]
    /\ call' = [call EXCEPT !.pc = "rekey_insert"]
    /\ UNCHANGED <<servers, regLock, starting, epVars, reqVars, okCount>>

\* lines 238-241: lock the shared session id, overwrite it, unlock
RekeySid ==
    /\ call.pc = "rekey_sid"
    /\ ~sidLock[call.ent]
    /\ sidArc' = [sidArc EXCEPT ![call.ent] = call.new]
    /\ call' = [call EXCEPT !.pc = "rekey_insert"]
    /\ UNCHANGED <<servers, regLock, starting, nextEp, port, pending, pendLock, sidLock,
                   shutdown, txAlive, serving, paths, cleaned, reqVars, okCount>>

\* lines 242-249: insert the entry under new_id, unlock the registry
RekeyInsert ==
    /\ call.pc = "rekey_insert"
    /\ LET e == call.ent
           n == call.new IN
        /\ servers' = [servers EXCEPT ![n] = e]
        /\ txAlive' = Evict(txAlive, servers[n], e)
    /\ regLock' = FALSE
    /\ call' = Returned("rekey", call.sid, call.new, 0, "Ok")
    /\ UNCHANGED <<starting, nextEp, port, sidArc, pending, pendLock, sidLock, shutdown,
                   serving, paths, cleaned, reqVars, okCount>>

\* ----------------------------------------------------- resolve_prompt
\* an unknown session reported with the prompt's error
ResolveLockPromptError(s, p, d) ==
    /\ ~regLock
    /\ LET e == servers[s] IN
        IF e = NoEntry
        THEN /\ call' = Returned("resolve", s, 0, p, "PromptNotFound")
             /\ UNCHANGED regLock
        ELSE /\ regLock' = TRUE
             /\ call' = Running("resolve", s, 0, p, d, e, "resolve_pending")
    /\ UNCHANGED <<servers, starting, epVars, reqVars, okCount>>

\* a lookup that ignores session_id when another session holds the prompt
ResolveLockAnySession(s, p, d) ==
    /\ ~regLock
    /\ LET holders == {a \in SessionIds :
                         servers[a] # NoEntry /\ p \in pending[servers[a]]}
           e == IF holders # {} THEN servers[CHOOSE a \in holders : TRUE]
                                ELSE servers[s] IN
        IF e = NoEntry
        THEN /\ call' = Returned("resolve", s, 0, p, "SessionNotFound")
             /\ UNCHANGED regLock
        ELSE /\ regLock' = TRUE
             /\ call' = Running("resolve", s, 0, p, d, e, "resolve_pending")
    /\ UNCHANGED <<servers, starting, epVars, reqVars, okCount>>

\* lines 258-261: lock the registry, look the session up
ResolveLock(s, p, d) ==
    /\ ~regLock
    /\ LET e == servers[s] IN
        IF e = NoEntry
        THEN /\ call' = Returned("resolve", s, 0, p, "SessionNotFound")
             /\ UNCHANGED regLock
        ELSE /\ regLock' = TRUE
             /\ call' = Running("resolve", s, 0, p, d, e, "resolve_pending")
    /\ UNCHANGED <<servers, starting, epVars, reqVars, okCount>>

\* a lookup that leaves the entry in the table (HashMap::get for remove)
TakeSenderKeep(tbl, p) == tbl

\* HashMap::remove(prompt_id) on the pending table (line 265)
TakeSender(tbl, p) == tbl \ {p}

\* oneshot::Sender::send (line 268): Ok while the Receiver exists, else the
\* value comes back as Err and is dropped with the Sender
Send(ch, d) ==
    IF ch.rx THEN [ch EXCEPT !.tx = "sent", !.val = d]
             ELSE [ch EXCEPT !.tx = "dropped"]

\* a resolve that ignores the result of send (`let _ = tx.send(response)`)
ResolvePendingOk ==
    /\ call.pc = "resolve_pending"
    /\ LET e == call.ent
           p == call.pid IN
        /\ ~pendLock[e]
        /\ IF p \notin pending[e]
           THEN /\ call' = Returned("resolve", call.sid, 0, p, "PromptNotFound")
                /\ UNCHANGED <<pending, chan, okCount>>
           ELSE /\ pending' = [pending EXCEPT ![e] = TakeSender(pending[e], p)]
                /\ chan' = [chan EXCEPT ![p] = Send(chan[p], call.dec)]
                /\ call' = Returned("resolve", call.sid, 0, p, "Ok")
                /\ okCount' = [okCount EXCEPT ![p] = @ + 1]
    /\ regLock' = FALSE
    /\ UNCHANGED <<servers, starting, nextEp, port, sidArc, pendLock, sidLock,
                   shutdown, txAlive, serving, paths, cleaned, nextReq, hpc, hep,
                   hsid, hguard, hres>>

\* lines 263-270: lock the pending table, remove the Sender, send; both
\* guards are dropped on return
ResolvePending ==
    /\ call.pc = "resolve_pending"
    /\ LET e == call.ent
           p == call.pid IN
        /\ ~pendLock[e]
        /\ IF p \notin pending[e]
           THEN /\ call' = Returned("resolve", call.sid, 0, p, "PromptNotFound")
                /\ UNCHANGED <<pending, chan, okCount>>
           ELSE /\ pending' = [pending EXCEPT ![e] = TakeSender(pending[e], p)]
                /\ chan' = [chan EXCEPT ![p] = Send(chan[p], call.dec)]
                /\ IF chan[p].rx
                   THEN /\ call' = Returned("resolve", call.sid, 0, p, "Ok")
                        /\ okCount' = [okCount EXCEPT ![p] = @ + 1]
                   ELSE /\ call' = Returned("resolve", call.sid, 0, p,
                                            "ReceiverDropped")
                        /\ UNCHANGED okCount
    /\ regLock' = FALSE
    /\ UNCHANGED <<servers, starting, nextEp, port, sidArc, pendLock, sidLock, shutdown,
                   txAlive, serving, paths, cleaned, nextReq, hpc, hep, hsid, hguard,
                   hres>>

\* ------------------------------------------------------ set_mcp_paths
\* lines 331-342: lock the registry, overwrite the entry's paths if present
SetMcpPaths(s, pth) ==
    /\ ~regLock
    /\ LET e == servers[s] IN
        IF e = NoEntry
        THEN /\ call' = Returned("set_mcp_paths", s, 0, 0, "NoSession")
             /\ UNCHANGED paths
        ELSE /\ paths' = [paths EXCEPT ![e] = pth]
             /\ call' = Returned("set_mcp_paths", s, 0, 0, "Ok")
    /\ UNCHANGED <<servers, regLock, starting, nextEp, port, sidArc, pending,
                   pendLock, sidLock, shutdown, txAlive, serving, cleaned, reqVars,
                   okCount>>

\* --------------------------------------------- handle_permission_prompt
\* lines 160-161: the endpoint's router accepts a request; a fresh uuid
\* is the prompt id and a oneshot channel is created
Arrive(e) ==
    /\ nextReq < MaxReqs
    /\ e <= nextEp
    /\ serving[e]
    /\ LET r == nextReq + 1 IN
        /\ nextReq' = r
        /\ hpc' = [hpc EXCEPT ![r] = "insert"]
        /\ hep' = [hep EXCEPT ![r] = e]
        /\ chan' = [chan EXCEPT ![r] = NewChan]
    /\ UNCHANGED <<regVars, epVars, hsid, hguard, hres, okCount>>

\* line 165: state.pending.lock().await
HLockInsert(r) ==
    /\ hpc[r] = "insert"
    /\ ~pendLock[hep[r]]
    /\ pendLock' = [pendLock EXCEPT ![hep[r]] = TRUE]
    /\ hguard' = [hguard EXCEPT ![r] = "pending"]
    /\ hpc' = [hpc EXCEPT ![r] = "inserting"]
    /\ UNCHANGED <<regVars, nextEp, port, sidArc, pending, sidLock, shutdown,
                   txAlive, serving, paths, cleaned, nextReq, hep, hsid, chan,
                   hres, okCount>>

\* an insert whose guard is not scoped to the block and lives on
HInsertHold(r) ==
    /\ hpc[r] = "inserting"
    /\ pending' = [pending EXCEPT ![hep[r]] = @ \cup {r}]
    /\ hpc' = [hpc EXCEPT ![r] = "read_sid"]
    /\ UNCHANGED <<regVars, nextEp, port, sidArc, pendLock, sidLock, shutdown,
                   txAlive, serving, paths, cleaned, nextReq, hep, hsid, hguard,
                   chan, hres, okCount>>

\* lines 166-167: insert the Sender under the prompt id; the guard is
\* dropped at the end of the block
HInsert(r) ==
    /\ hpc[r] = "inserting"
    /\ pending' = [pending EXCEPT ![hep[r]] = @ \cup {r}]
    /\ pendLock' = [pendLock EXCEPT ![hep[r]] = FALSE]
    /\ hguard' = [hguard EXCEPT ![r] = "none"]
    /\ hpc' = [hpc EXCEPT ![r] = "read_sid"]
    /\ UNCHANGED <<regVars, nextEp, port, sidArc, sidLock, shutdown, txAlive,
                   serving, paths, cleaned, nextReq, hep, hsid, chan, hres,
                   okCount>>

\* line 169: state.session_id.lock().await
HLockSid(r) ==
    /\ hpc[r] = "read_sid"
    /\ ~sidLock[hep[r]]
    /\ sidLock' = [sidLock EXCEPT ![hep[r]] = TRUE]
    /\ hguard' = [hguard EXCEPT ![r] = "session_id"]
    /\ hpc' = [hpc EXCEPT ![r] = "reading_sid"]
    /\ UNCHANGED <<regVars, nextEp, port, sidArc, pending, pendLock, shutdown,
                   txAlive, serving, paths, cleaned, nextReq, hep, hsid, chan,
                   hres, okCount>>

\* a guard bound to a local that lives to the end of the function
HReadSidHold(r) ==
    /\ hpc[r] = "reading_sid"
    /\ hsid' = [hsid EXCEPT ![r] = sidArc[hep[r]]]
    /\ hpc' = [hpc EXCEPT ![r] = "emit"]
    /\ UNCHANGED <<regVars, epVars, nextReq, hep, hguard, chan, hres, okCount>>

\* line 169: clone the session id; the temporary guard is dropped at the
\* end of the statement
HReadSid(r) ==
    /\ hpc[r] = "reading_sid"
    /\ hsid' = [hsid EXCEPT ![r] = sidArc[hep[r]]]
    /\ sidLock' = [sidLock EXCEPT ![hep[r]] = FALSE]
    /\ hguard' = [hguard EXCEPT ![r] = "none"]
    /\ hpc' = [hpc EXCEPT ![r] = "emit"]
    /\ UNCHANGED <<regVars, nextEp, port, sidArc, pending, pendLock, shutdown,
                   txAlive, serving, paths, cleaned, nextReq, hep, chan, hres,
                   okCount>>

\* lines 171-183: build the event from the local copy and emit it on the
\* session-scoped channel and on the generic one
HEmit(r) ==
    /\ hpc[r] = "emit"
    /\ hpc' = [hpc EXCEPT ![r] = "wait"]
    /\ UNCHANGED <<regVars, epVars, nextReq, hep, hsid, hguard, chan, hres, okCount>>

\* the PermissionPromptEvent of request r as the frontend has seen it
\* (lines 171-181): channel "permission-prompt:{session_id}" and payload
Emitted(r) == hpc[r] \in {"wait", "elapsed", "deny", "denying", "done"}
EventOf(r) == [prompt_id |-> r, channel |-> hsid[r], session_id |-> hsid[r]]

\* lines 186-187: the Receiver is polled first and holds a value, which is
\* returned as Ok(Json(resp))
HRecv(r) ==
    /\ hpc[r] = "wait"
    /\ chan[r].tx = "sent"
    /\ hres' = [hres EXCEPT ![r] = [result |-> "Ok", resp |-> chan[r].val,
                                    why |-> "resolved"]]
    /\ chan' = [chan EXCEPT ![r].rx = FALSE]
    /\ hpc' = [hpc EXCEPT ![r] = "done"]
    /\ UNCHANGED <<regVars, epVars, nextReq, hep, hsid, hguard, okCount>>

\* lines 186-188: the Sender was dropped without a value, Ok(Err(RecvError))
HClosed(r) ==
    /\ hpc[r] = "wait"
    /\ chan[r].tx = "dropped"
    /\ hres' = [hres EXCEPT ![r].why = "closed"]
    /\ chan' = [chan EXCEPT ![r].rx = FALSE]
    /\ hpc' = [hpc EXCEPT ![r] = "deny"]
    /\ UNCHANGED <<regVars, epVars, nextReq, hep, hsid, hguard, okCount>>

\* a wait on the Receiver alone, with no timer around it
HElapsedNever(r) ==
    /\ hpc[r] = "wait"
    /\ FALSE
    /\ UNCHANGED vars

\* line 186: the Receiver is polled and is pending, then the 300 s timer is
\* polled and has elapsed: the Timeout future completes with Err(Elapsed)
HElapsed(r) ==
    /\ hpc[r] = "wait"
    /\ chan[r].tx = "alive"
    /\ hres' = [hres EXCEPT ![r].why = "timeout"]
    /\ hpc' = [hpc EXCEPT ![r] = "elapsed"]
    /\ UNCHANGED <<regVars, epVars, nextReq, hep, hsid, hguard, chan, okCount>>

\* line 186: the completed Timeout future is dropped and the Receiver with
\* it; a value sent since the last poll is dropped unread
HDropRx(r) ==
    /\ hpc[r] = "elapsed"
    /\ chan' = [chan EXCEPT ![r].rx = FALSE]
    /\ hpc' = [hpc EXCEPT ![r] = "deny"]
    /\ UNCHANGED <<regVars, epVars, nextReq, hep, hsid, hguard, hres, okCount>>

\* line 190: state.pending.lock().await
HLockDeny(r) ==
    /\ hpc[r] = "deny"
    /\ ~pendLock[hep[r]]
    /\ pendLock' = [pendLock EXCEPT ![hep[r]] = TRUE]
    /\ hguard' = [hguard EXCEPT ![r] = "pending"]
    /\ hpc' = [hpc EXCEPT ![r] = "denying"]
    /\ UNCHANGED <<regVars, nextEp, port, sidArc, pending, sidLock, shutdown,
                   txAlive, serving, paths, cleaned, nextReq, hep, hsid, chan,
                   hres, okCount>>

\* a deny path that answers without removing the prompt's entry
HDenyKeep(r) ==
    /\ hpc[r] = "denying"
    /\ pendLock' = [pendLock EXCEPT ![hep[r]] = FALSE]
    /\ hguard' = [hguard EXCEPT ![r] = "none"]
    /\ hres' = [hres EXCEPT ![r].resp = TimeoutDeny, ![r].result = "Ok"]
    /\ hpc' = [hpc EXCEPT ![r] = "done"]
    /\ UNCHANGED <<regVars, nextEp, port, sidArc, pending, sidLock, shutdown,
                   txAlive, serving, paths, cleaned, nextReq, hep, hsid, chan,
                   okCount>>

\* lines 191-197: remove the prompt's entry (dropping a Sender still stored
\* there), answer Ok(Json(..)) with the synthesized deny; the guard is
\* dropped on return
HDeny(r) ==
    /\ hpc[r] = "denying"
    /\ chan' = DropSenders(chan, pending[hep[r]] \cap {r})
    /\ pending' = [pending EXCEPT ![hep[r]] = @ \ {r}]
    /\ pendLock' = [pendLock EXCEPT ![hep[r]] = FALSE]
    /\ hguard' = [hguard EXCEPT ![r] = "none"]
    /\ hres' = [hres EXCEPT ![r].resp = TimeoutDeny, ![r].result = "Ok"]
    /\ hpc' = [hpc EXCEPT ![r] = "done"]
    /\ UNCHANGED <<regVars, nextEp, port, sidArc, sidLock, shutdown, txAlive,
                   serving, paths, cleaned, nextReq, hep, hsid, okCount>>

\* --------------------------------------------------------------- system
\* The prompt ids a frontend can pass to resolve_prompt: uuids it has read
\* in an emitted event, or a string that is no prompt's id (0)
PromptIds == {0} \cup {r \in Reqs : Emitted(r)}


\* Specifications of the same program.  Each bounds how many endpoints and
\* requests ever exist; the actions are the same.
\*   SpecPrompts   - several prompts on one endpoint
\*   FairPrompts   - SpecPrompts with the runtime's fairness
\*   SpecRegistry  - several endpoints, one prompt
\*   SpecLifecycle - SpecRegistry with set_mcp_paths
\*   SpecArtifacts - one endpoint, one prompt, with set_mcp_paths
\*   SpecReact     - several endpoints and prompts, without stop_server,
\*                   rekey_server and timeouts
\* set_mcp_paths writes only `paths`, which no other function reads before
\* cleanup, so SpecPrompts and SpecRegistry leave it out.
Common(maxEp, maxRq) ==
    \/ \E s \in SessionIds : nextEp < maxEp /\ StartSpawn(s)
    \/ \E e \in Endpoints : StartRegister(e)
    \/ \E e \in Endpoints : ListenerShutdown(e)
    \/ \E s \in SessionIds : StopLock(s)
    \/ StopClear
    \/ StopCleanup
    \/ \E old \in SessionIds, new \in SessionIds : RekeyLock(old, new)
    \/ RekeySid
    \/ RekeyInsert
    \/ \E s \in SessionIds, p \in PromptIds, d \in Decisions :
          ResolveLock(s, p, d)
    \/ ResolvePending
    \/ \E e \in Endpoints : nextReq < maxRq /\ Arrive(e)
    \/ \E r \in Reqs : HLockInsert(r)
    \/ \E r \in Reqs : HInsert(r)
    \/ \E r \in Reqs : HLockSid(r)
    \/ \E r \in Reqs : HReadSid(r)
    \/ \E r \in Reqs : HEmit(r)
    \/ \E r \in Reqs : HRecv(r)
    \/ \E r \in Reqs : HClosed(r)
    \/ \E r \in Reqs : HElapsed(r)
    \/ \E r \in Reqs : HDropRx(r)
    \/ \E r \in Reqs : HLockDeny(r)
    \/ \E r \in Reqs : HDeny(r)

NextPrompts == Common(PromptsEndpoints, MaxReqs)
SpecPrompts == Init /\ [][NextPrompts]_vars

\* Scheduling for liveness.  Every function of the module runs on the tokio
\* runtime, which keeps polling a task that can make progress; the tokio
\* Mutex is FIFO-fair; the timer of a suspended request fires after 300 s.
\* So a started request, and a call past its registry lookup, takes its
\* next step once that step stays enabled.  Nothing obliges a frontend to
\* call resolve_prompt or stop_server.
HStep(r) ==
    \/ HLockInsert(r) \/ HInsert(r) \/ HLockSid(r) \/ HReadSid(r) \/ HEmit(r)
    \/ HRecv(r) \/ HClosed(r) \/ HElapsed(r) \/ HDropRx(r)
    \/ HLockDeny(r) \/ HDeny(r)
CallStep ==
    StopClear \/ StopCleanup \/ RekeySid \/ RekeyInsert \/ ResolvePending
Fairness ==
    /\ \A r \in Reqs : WF_vars(HStep(r))
    /\ WF_vars(CallStep)
FairPrompts == SpecPrompts /\ Fairness

NextRegistry == Common(MaxEndpoints, RegistryReqs)
SpecRegistry == Init /\ [][NextRegistry]_vars

\* SpecRegistry with set_mcp_paths
NextLifecycle ==
    \/ Common(MaxEndpoints, RegistryReqs)
    \/ \E s \in SessionIds, pth \in Paths : SetMcpPaths(s, pth)
SpecLifecycle == Init /\ [][NextLifecycle]_vars

\* The program in the runs in which nobody calls stop_server or
\* rekey_server and no request's timer fires: what is left is start_server,
\* the requests up to their wait, and resolve_prompt.
NextReact ==
    \/ \E s \in SessionIds : StartSpawn(s)
    \/ \E e \in Endpoints : StartRegister(e)
    \/ \E e \in Endpoints : ListenerShutdown(e)
    \/ \E s \in SessionIds, p \in PromptIds, d \in Decisions :
          ResolveLock(s, p, d)
    \/ ResolvePending
    \/ \E e \in Endpoints : Arrive(e)
    \/ \E r \in Reqs : HLockInsert(r)
    \/ \E r \in Reqs : HInsert(r)
    \/ \E r \in Reqs : HLockSid(r)
    \/ \E r \in Reqs : HReadSid(r)
    \/ \E r \in Reqs : HEmit(r)
    \/ \E r \in Reqs : HRecv(r)
SpecReact == Init /\ [][NextReact]_vars

NextArtifacts ==
    \/ Common(ArtifactsEndpoints, ArtifactsReqs)
    \/ \E s \in SessionIds, pth \in Paths : SetMcpPaths(s, pth)
SpecArtifacts == Init /\ [][NextArtifacts]_vars


\* ===================================================================
\* Properties
\* ===================================================================
\* a step in which a resolve_prompt call on prompt p returns
ResolveReturns(p) ==
    /\ call' # call
    /\ call'.pc = "returned"
    /\ call'.op = "resolve"
    /\ call'.pid = p

\* C1 - at-most-once delivery.  No prompt ever has more than one
\* resolve_prompt call return Ok; the call that returns Ok takes the entry
\* out of the pending table; and once a call has returned Ok for a prompt,
\* every later resolve_prompt on it fails and leaves the channel as it was:
\* with "No pending prompt" whenever its session lookup finds an endpoint.
C1_AtMostOnceStep ==
    \A p \in Reqs :
        /\ okCount'[p] <= 1
        /\ (ResolveReturns(p) /\ call'.res = "Ok") =>
              /\ p \in pending[call.ent]
              /\ p \notin pending'[call.ent]
              /\ chan'[p].val = call.dec
        /\ (ResolveReturns(p) /\ okCount[p] >= 1) =>
              /\ call'.res = IF call.pc = "resolve_pending"
                             THEN "PromptNotFound" ELSE "SessionNotFound"
              /\ chan'[p] = chan[p]
              /\ okCount'[p] = okCount[p]
C1_AtMostOnce == [][C1_AtMostOnceStep]_vars

\* a second resolve_prompt on a prompt that was delivered has returned
\* "No pending prompt"
C1_Witness ==
    \E p \in Reqs :
        /\ okCount[p] = 1
        /\ chan[p].val \in Decisions
        /\ call.pc = "returned" /\ call.op = "resolve" /\ call.pid = p
        /\ call.res = "PromptNotFound"


\* C2 - a resolve_prompt racing the timeout: of "delivered" and "timed
\* out" exactly one wins.  For a request that has returned: some
\* resolve_prompt call returned Ok for its prompt exactly if the request
\* returned the resolved decision, and the request returned the synthesized
\* deny exactly if no resolve_prompt call returned Ok.
C2_ExactlyOneWins ==
    \A r \in Reqs :
        hpc[r] = "done" =>
            /\ (okCount[r] >= 1) <=> (hres[r].why = "resolved")
            /\ (hres[r].resp = TimeoutDeny) <=> (okCount[r] = 0)

\* C3 - stop drains pendings.  Once stop_server has returned for an
\* endpoint, none of its requests is still on the way to, or suspended in,
\* the wait for a decision with its Sender alive.
StopReturned(e) == shutdown[e] /\ cleaned[e]
C3_StopDrains ==
    \A r \in Reqs :
        (hep[r] # NoEntry /\ StopReturned(hep[r])) =>
            ~(hpc[r] = "wait" /\ chan[r].tx = "alive")

\* a step in which a resolve_prompt call makes its session lookup
ResolveLooksUp ==
    /\ call' # call
    /\ call.pc \in {"idle", "returned"}
    /\ call'.op = "resolve"

\* C4 - resolve_prompt's error contract.  The session lookup fails with the
\* session error exactly when nothing is registered under session_id, and
\* it is made before the prompt is looked at; with the session registered
\* the call fails with the prompt error exactly when prompt_id is not in
\* that endpoint's pending table; and a call that fails either way leaves
\* the registry, every pending table and every channel as they were.
C4_ResolveErrorsStep ==
    /\ ResolveLooksUp =>
          IF servers[call'.sid] = NoEntry
          THEN call'.pc = "returned" /\ call'.res = "SessionNotFound"
          ELSE call'.pc = "resolve_pending" /\ call'.ent = servers[call'.sid]
    /\ (call.pc = "resolve_pending" /\ call' # call) =>
          /\ call'.pc = "returned"
          /\ (call'.res = "PromptNotFound") <=> (call.pid \notin pending[call.ent])
          /\ call'.res # "SessionNotFound"
    /\ \A p \in PromptIds :
          (ResolveReturns(p) /\ call'.res \in {"SessionNotFound", "PromptNotFound"})
              => UNCHANGED <<servers, pending, chan, sidArc, shutdown, okCount>>
C4_ResolveErrors == [][C4_ResolveErrorsStep]_vars

\* resolve_prompt on a registered session has failed with the prompt error
\* for a prompt that its request had already settled
C4_Witness ==
    /\ call.pc = "returned" /\ call.op = "resolve"
    /\ call.res = "PromptNotFound"
    /\ call.pid \in Reqs /\ hpc[call.pid] = "done"
    /\ servers[call.sid] # NoEntry


\* the prompt is pending in an endpoint registered under a session other
\* than b
PendingElsewhere(p, b) ==
    \E a \in SessionIds \ {b} :
        servers[a] # NoEntry /\ p \in pending[servers[a]]

\* C5 as stated - isolation: resolve_prompt with session B's identifier on
\* a prompt pending in another session A fails with the session error.
C5_IsolationSessionError ==
    [][\A p \in Reqs :
          (ResolveReturns(p) /\ PendingElsewhere(p, call'.sid))
              => call'.res = "SessionNotFound"]_vars

\* C5 as amended - such a call fails, with the session error when nothing
\* is registered under B and with the prompt error when B is registered,
\* and the prompt stays pending in A and undelivered.
C5_IsolationStep ==
    \A p \in Reqs :
        (ResolveReturns(p) /\ PendingElsewhere(p, call'.sid)) =>
            /\ call'.res = IF servers[call'.sid] = NoEntry
                           THEN "SessionNotFound" ELSE "PromptNotFound"
            /\ UNCHANGED <<servers, pending, chan, okCount>>
C5_Isolation == [][C5_IsolationStep]_vars

\* resolve_prompt under a registered session B has failed for a prompt that
\* is pending under another session
C5_Witness ==
    /\ call.pc = "returned" /\ call.op = "resolve"
    /\ call.res = "PromptNotFound"
    /\ servers[call.sid] # NoEntry
    /\ call.pid \in Reqs
    /\ PendingElsewhere(call.pid, call.sid)
    /\ chan[call.pid].tx = "alive"

\* C6 - timeout correctness.  A request that returns with no resolve_prompt
\* call having returned Ok for its prompt returns behavior "deny", message
\* "Permission prompt timed out" and no updated input, its entry is in no
\* pending table, and a resolve_prompt that looks the prompt up after the
\* request has returned fails with the prompt error.
C6_TimeoutStep ==
    /\ \A r \in Reqs :
          (hpc'[r] = "done" /\ (okCount'[r] = 0 \/ hres'[r].why = "timeout")) =>
              /\ hres'[r].resp.behavior = "deny"
              /\ hres'[r].resp.message = "Permission prompt timed out"
              /\ hres'[r].resp.updated_input = "none"
              /\ hres'[r].why \in {"timeout", "closed"}
              /\ \A e \in Endpoints : r \notin pending'[e]
    /\ \A p \in Reqs :
          (ResolveReturns(p) /\ hpc[p] = "done") =>
              /\ call'.res = IF call.pc = "resolve_pending"
                             THEN "PromptNotFound" ELSE "SessionNotFound"
              /\ UNCHANGED <<pending, chan, hres>>
C6_Timeout == [][C6_TimeoutStep]_vars

\* a request has returned the timeout deny after its timer elapsed, nothing
\* was delivered, and a later resolve_prompt on it got the prompt error
C6_Witness ==
    \E r \in Reqs :
        /\ hpc[r] = "done" /\ hres[r].why = "timeout" /\ okCount[r] = 0
        /\ hres[r].resp = TimeoutDeny
        /\ call.pc = "returned" /\ call.op = "resolve" /\ call.pid = r
        /\ call.res = "PromptNotFound"


\* a step in which a call of `op` takes the registry lock and looks up its key
Begins(op) ==
    /\ call' # call
    /\ call.pc \in {"idle", "returned"}
    /\ call'.op = op

\* C7 - rekey preserves flight.  From its lookup to its return a
\* rekey_server(old, new) that finds old changes nothing but the registry
\* slots of old and new and the entry's session id: the entry's port,
\* shutdown switch, paths and pending table, and every channel, stay as they
\* are.  When it returns the entry is registered under new, its session id
\* is new, and old (if different) is unregistered; right after, a
\* resolve_prompt under old fails with the session error and one under new
\* finds the entry; and a resolve_prompt that finds a prompt in the table of
\* the entry it looked up, with the request still listening, returns Ok and
\* delivers its decision.
C7_RekeyStep ==
    /\ (Begins("rekey") /\ call'.pc = "rekey_sid") =>
          /\ call'.ent = servers[call'.sid]
          /\ servers' = [servers EXCEPT ![call'.sid] = NoEntry]
          /\ UNCHANGED <<epVars, reqVars, okCount>>
    /\ (call.pc = "rekey_sid" /\ call' # call) =>
          /\ sidArc' = [sidArc EXCEPT ![call.ent] = call.new]
          /\ UNCHANGED <<servers, port, shutdown, paths, pending, pendLock,
                         txAlive, serving, cleaned, reqVars, okCount>>
    /\ (call.pc = "rekey_insert" /\ call' # call) =>
          /\ call'.pc = "returned" /\ call'.res = "Ok"
          /\ servers' = [servers EXCEPT ![call.new] = call.ent]
          /\ sidArc[call.ent] = call.new
          /\ (call.sid # call.new => servers'[call.sid] = NoEntry)
          /\ txAlive'[call.ent] = txAlive[call.ent]
          /\ UNCHANGED <<sidArc, port, shutdown, paths, pending, pendLock,
                         serving, cleaned, reqVars, okCount>>
    /\ (call.pc = "returned" /\ call.op = "rekey" /\ call.res = "Ok"
            /\ Begins("resolve")) =>
          /\ (call'.sid = call.new) =>
                /\ call'.pc = "resolve_pending"
                /\ call'.ent = servers[call.new]
                /\ sidArc[call'.ent] = call.new
          /\ (call'.sid = call.sid /\ call.sid # call.new) =>
                /\ call'.pc = "returned"
                /\ call'.res = "SessionNotFound"
    /\ (call.pc = "resolve_pending" /\ call' # call
            /\ call.pid \in pending[call.ent] /\ chan[call.pid].rx) =>
          /\ call'.res = "Ok"
          /\ chan'[call.pid].val = call.dec
C7_RekeyPreservesFlight == [][C7_RekeyStep]_vars

\* a prompt whose handler had read the old session id before the rekey has
\* been resolved under the new id, on an endpoint whose paths were recorded
C7_Witness ==
    \E r \in Reqs :
        /\ call.pc = "returned" /\ call.op = "resolve" /\ call.res = "Ok"
        /\ call.pid = r
        /\ hsid[r] \in SessionIds /\ hsid[r] # call.sid
        /\ sidArc[hep[r]] = call.sid
        /\ servers[call.sid] = hep[r]
        /\ paths[hep[r]] \in Paths

\* a rekey_server call is between its lookup and its return on endpoint e
RekeyRunningOn(e) ==
    call.pc \in {"rekey_sid", "rekey_insert"} /\ call.ent = e

\* C8 - rekey is observable by in-flight requests.  A request that emits
\* its notification while no rekey_server call is running on its endpoint
\* emits the value the shared session id has at that moment.
C8_EmitsCurrentId ==
    [][\A r \in Reqs :
          (hpc[r] = "emit" /\ hpc'[r] = "wait" /\ ~RekeyRunningOn(hep[r]))
              => /\ EventOf(r)'.session_id = sidArc[hep[r]]
                 /\ EventOf(r)'.channel = sidArc[hep[r]]]_vars

\* every variable a no-op stop_server or rekey_server must leave alone
brokerVars == <<servers, regLock, starting, epVars, reqVars, okCount>>

\* C9 - stop and rekey on unknown ids.  A stop_server(s) or
\* rekey_server(s, x) that finds nothing under s returns at once and leaves
\* the registry, every session id, pending table, shutdown switch and
\* channel unchanged; and right after a stop_server(s) that did stop an
\* endpoint, s is unregistered, so a second stop_server(s) is such a no-op.
C9_UnknownIdStep ==
    /\ \A op \in {"stop", "rekey"} :
          (Begins(op) /\ servers[call'.sid] = NoEntry) =>
              /\ call'.pc = "returned" /\ call'.res = "NoSession"
              /\ UNCHANGED brokerVars
    /\ (call.pc = "stop_cleanup" /\ call' # call) =>
          /\ call'.pc = "returned" /\ call'.res = "Ok"
          /\ servers'[call.sid] = NoEntry
C9_UnknownIdNoop == [][C9_UnknownIdStep]_vars

\* stop_server has returned from an unknown id while another session is
\* registered with a prompt pending and a stopped endpoint exists
C9_Witness ==
    /\ call.pc = "returned" /\ call.op = "stop" /\ call.res = "NoSession"
    /\ \E e \in Endpoints : StopReturned(e)
    /\ \E s \in SessionIds : servers[s] # NoEntry /\ pending[servers[s]] # {}

\* C10 - at most one live endpoint per session identifier.  Whenever no
\* start_server call is between its spawn and its insert and the registry
\* lock is free, no two endpoints whose listeners still serve have the same
\* session id.
C10_OneLivePerSession ==
    (starting = {} /\ ~regLock) =>
        \A e1 \in Endpoints, e2 \in Endpoints :
            (e1 # e2 /\ serving[e1] /\ serving[e2]) => sidArc[e1] # sidArc[e2]

\* request r has been accepted and has not returned
InFlight(r) == hpc[r] \notin {"idle", "done"}

\* C11 - pending-table invariant.  Every prompt id in an endpoint's pending
\* table is the id of one request of that endpoint that is in flight, and a
\* request that has returned has no entry in any table; the only step that
\* adds to a table is a request's own insert, which adds exactly its one
\* entry, and no request's entry is ever added a second time.
C11_TableInv ==
    /\ \A e \in Endpoints : \A p \in pending[e] :
          /\ p \in Reqs
          /\ hep[p] = e
          /\ InFlight(p)
    /\ \A r \in Reqs : hpc[r] = "done" => \A e \in Endpoints : r \notin pending[e]
C11_TableStep ==
    /\ \A e \in Endpoints :
          pending'[e] \ pending[e] # {} =>
              \E r \in Reqs :
                  /\ pending'[e] = pending[e] \cup {r}
                  /\ r \notin pending[e]
                  /\ hep[r] = e
                  /\ hpc[r] = "inserting" /\ hpc'[r] = "read_sid"
    /\ \A r \in Reqs :
          (hpc[r] = "inserting" /\ hpc'[r] # hpc[r]) =>
              /\ r \in pending'[hep[r]]
              /\ \A e \in Endpoints \ {hep[r]} : pending'[e] = pending[e]
C11_PendingTable == []C11_TableInv /\ [][C11_TableStep]_vars

\* one request has returned the timeout deny and has no entry left while
\* another request of the same endpoint is suspended with its entry in the
\* table
C11_Witness ==
    \E r1 \in Reqs, r2 \in Reqs :
        /\ r1 # r2 /\ hep[r1] = hep[r2]
        /\ hpc[r1] = "done" /\ hres[r1].why = "timeout"
        /\ r1 \notin pending[hep[r1]]
        /\ hpc[r2] = "wait" /\ r2 \in pending[hep[r2]]

\* the answer of a returned request is a well-formed decision: an Ok result
\* whose body is the value a resolve_prompt call sent, or the deny
WellFormed(r) ==
    /\ hres[r].result = "Ok"
    /\ \/ /\ hres[r].why = "resolved"
          /\ hres[r].resp \in Decisions
          /\ hres[r].resp = chan[r].val
          /\ okCount[r] >= 1
       \/ /\ hres[r].why \in {"timeout", "closed"}
          /\ hres[r].resp.behavior = "deny"

\* C12 - every accepted request eventually returns (again and again no
\* request is in flight), and what it returns is
\* an Ok result carrying either the decision a resolve_prompt call supplied
\* or a deny; a request suspended on a channel whose Sender was dropped
\* without a value leaves the wait for its deny path, which it follows to
\* its return.
C12_Completes ==
    /\ [](\A r \in Reqs : hpc[r] = "done" => WellFormed(r))
    /\ []<>(\A r \in Reqs : ~InFlight(r))
    /\ [][\A r \in Reqs :
            (hpc[r] = "wait" /\ chan[r].tx = "dropped" /\ hpc'[r] # hpc[r])
                => (hpc'[r] = "deny" /\ hres'[r].why = "closed")]_vars
    /\ [][\A r \in Reqs :
            (hpc[r] \in {"deny", "denying"} /\ hpc'[r] # hpc[r])
                => (hpc'[r] \in {"denying", "done"}
                      /\ hres'[r].why = hres[r].why)]_vars

\* a request whose Sender was dropped by stop_server has returned the deny
\* while another request has returned a resolved decision
C12_Witness ==
    \E r1 \in Reqs, r2 \in Reqs :
        /\ hpc[r1] = "done" /\ hres[r1].why = "closed"
        /\ hres[r1].resp = TimeoutDeny
        /\ hpc[r2] = "done" /\ hres[r2].why = "resolved"

\* a call is between taking the registry lock and its return
CallRunning ==
    call.pc \in {"stop_pending", "stop_cleanup", "rekey_sid", "rekey_insert",
                 "resolve_pending"}

\* request r is between a lock().await that succeeded and the drop of the
\* guard
InCriticalSection(r) == hpc[r] \in {"inserting", "reading_sid", "denying"}

\* C13 - the wait is outside any lock.  A request suspended on its channel
\* owns no guard; every held pending-table lock is held by a request inside
\* its insert or deny critical section or by a running stop_server, every
\* held session-id lock by a request inside its read, and the registry lock
\* only by a running call, never by a request.  So with requests suspended
\* and no call or critical section under way every lock is free, and a
\* start_server, stop_server, rekey_server or resolve_prompt can take the
\* registry lock.
C13_WaitOutsideLocks ==
    /\ \A r \in Reqs :
          hpc[r] \in {"wait", "elapsed"} => hguard[r] = "none"
    /\ \A e \in Endpoints :
          /\ pendLock[e] =>
                \/ call.pc = "stop_cleanup" /\ call.ent = e
                \/ \E r \in Reqs : /\ hep[r] = e /\ hguard[r] = "pending"
                                   /\ hpc[r] \in {"inserting", "denying"}
          /\ sidLock[e] =>
                \E r \in Reqs : /\ hep[r] = e /\ hguard[r] = "session_id"
                                /\ hpc[r] = "reading_sid"
    /\ regLock <=> CallRunning
    /\ (~CallRunning /\ \A r \in Reqs : ~InCriticalSection(r)) =>
          /\ \A e \in Endpoints : ~pendLock[e] /\ ~sidLock[e]
          /\ \A s \in SessionIds :
                /\ ENABLED StopLock(s)
                /\ ENABLED RekeyLock(s, s)
                /\ ENABLED ResolveLock(s, 0, Allow)
          /\ \A e \in starting : ENABLED StartRegister(e)

\* one request is suspended with its entry in the table while a second
\* request of the same endpoint is inside its insert critical section and a
\* resolve_prompt call holds the registry lock
C13_Witness ==
    \E r1 \in Reqs, r2 \in Reqs :
        /\ hep[r1] = hep[r2]
        /\ hpc[r1] = "wait" /\ r1 \in pending[hep[r1]] /\ chan[r1].tx = "alive"
        /\ hpc[r2] = "inserting" /\ hguard[r2] = "pending"
        /\ call.pc = "resolve_pending"

\* the running call is suspended in lock().await on a Mutex that is held
CallWaitsForLock ==
    \/ call.pc \in {"stop_pending", "resolve_pending"} /\ pendLock[call.ent]
    \/ call.pc = "rekey_sid" /\ sidLock[call.ent]

\* the running call's next statement is cleanup_temp_files (std::fs::remove_file)
CallAtFileIO == call.pc = "stop_cleanup"

\* C14 - lock discipline.  No call is at file I/O while a pending-table
\* lock or the registry lock is held by it, and no call waits for another
\* lock while it holds the registry lock.
C14_LockDiscipline ==
    /\ CallAtFileIO => (~pendLock[call.ent] /\ ~regLock)
    /\ CallWaitsForLock => ~regLock

\* C15 - lifecycle ordering on stop.  The step of stop_server that cleans up
\* an endpoint's artifact files is taken only when the endpoint's listener
\* has stopped accepting connections.
C15_CleanupAfterListener ==
    [][\A e \in Endpoints :
          (~cleaned[e] /\ cleaned'[e]) => ~serving[e]]_vars

\* C16 - insert before emit.  When a request emits its notification its
\* entry is in its endpoint's pending table, and a resolve_prompt called
\* with the payload's session id and prompt id, for a prompt no earlier
\* resolve_prompt has taken, does not fail with "No pending prompt".  (Stated
\* for the runs without stop_server, rekey_server and timeouts.)
C16_InsertBeforeEmitStep ==
    \A r \in Reqs :
        /\ (hpc[r] = "emit" /\ hpc'[r] = "wait") => r \in pending[hep[r]]
        /\ (ResolveReturns(r) /\ Emitted(r) /\ okCount[r] = 0
                /\ call'.sid = EventOf(r).session_id)
              => call'.res # "PromptNotFound"
C16_InsertBeforeEmit == [][C16_InsertBeforeEmitStep]_vars

\* C17 - delivery failure.  A resolve_prompt that finds the prompt's entry
\* while the Receiver of its channel is gone returns the "Receiver already
\* dropped" error, takes the entry out of the table all the same, counts as
\* no delivery and leaves the request on its deny path; and a request whose
\* value was refused this way returns the deny, not a resolved decision.
C17_DeliveryFailureStep ==
    /\ (call.pc = "resolve_pending" /\ call' # call
            /\ call.pid \in pending[call.ent] /\ ~chan[call.pid].rx) =>
          /\ call'.pc = "returned"
          /\ call'.res = "ReceiverDropped"
          /\ call.pid \notin pending'[call.ent]
          /\ okCount' = okCount
          /\ chan'[call.pid].val = NoResp
          /\ hpc[call.pid] \in {"deny", "denying"}
          /\ UNCHANGED <<hpc, hres, servers>>
    /\ \A p \in Reqs :
          (ResolveReturns(p) /\ call'.res = "ReceiverDropped") =>
              (call.pid \in pending[call.ent] /\ ~chan[call.pid].rx)
    /\ \A r \in Reqs :
          (hpc'[r] = "done" /\ chan'[r].tx = "dropped" /\ chan'[r].val = NoResp) =>
              /\ hres'[r].resp = TimeoutDeny
              /\ hres'[r].resp \notin Decisions
C17_DeliveryFailure == [][C17_DeliveryFailureStep]_vars

\* resolve_prompt has returned the delivery error for a prompt whose request
\* has since returned the deny
C17_Witness ==
    \E r \in Reqs :
        /\ call.pc = "returned" /\ call.op = "resolve" /\ call.pid = r
        /\ call.res = "ReceiverDropped"
        /\ hpc[r] = "done" /\ hres[r].resp = TimeoutDeny
        /\ okCount[r] = 0

\* C18 - registry key consistency.  Whenever the registry lock is free,
\* every endpoint registered under a key has that key as the value of its
\* shared session id, and no endpoint is registered under two keys.
C18_KeyConsistency ==
    ~regLock =>
        \A k \in SessionIds :
            servers[k] # NoEntry =>
                /\ sidArc[servers[k]] = k
                /\ \A j \in SessionIds \ {k} : servers[j] # servers[k]

\* an endpoint started under one identifier is registered under another
\* after a rekey_server that evicted the endpoint registered there, and its
\* paths have been recorded
C18_Witness ==
    \E k \in SessionIds, e \in Endpoints, x \in Endpoints :
        /\ ~regLock
        /\ servers[k] = e /\ sidArc[e] = k
        /\ call.pc = "returned" /\ call.op = "rekey" /\ call.new = k
        /\ call.sid # k
        /\ paths[e] \in Paths
        /\ x # e /\ x <= nextEp /\ x \notin starting
        /\ ~txAlive[x] /\ ~shutdown[x]

\* request r is suspended in lock().await on a Mutex that is held
HWaitsForLock(r) ==
    \/ hpc[r] \in {"insert", "deny"} /\ pendLock[hep[r]]
    \/ hpc[r] = "read_sid" /\ sidLock[hep[r]]

\* the steps of the processes that hold a lock
HolderStep ==
    \/ CallStep
    \/ \E r \in Reqs : HInsert(r) \/ HReadSid(r) \/ HDeny(r)

\* C19 - deadlock freedom.  Locks are taken in one order: a request owns no
\* guard when it asks for a lock and never holds the registry lock; a call
\* asks for a pending-table or session-id lock only with the registry lock
\* already its own.  A call that waits for a lock waits for a request
\* inside a critical section, and a request that waits for a lock waits for
\* such a request or for stop_server at its cleanup: in both cases for a
\* process that is not itself waiting.  So whenever a lock is held, a
\* process holding one can take a step.
C19_NoDeadlock ==
    /\ \A r \in Reqs :
          hpc[r] \in {"insert", "read_sid", "deny"} => hguard[r] = "none"
    /\ regLock <=> CallRunning
    /\ CallWaitsForLock =>
          \E r \in Reqs : /\ hep[r] = call.ent /\ InCriticalSection(r)
                          /\ ~HWaitsForLock(r)
    /\ \A r \in Reqs :
          HWaitsForLock(r) =>
              \/ /\ call.pc = "stop_cleanup" /\ call.ent = hep[r]
                 /\ ~CallWaitsForLock
              \/ \E q \in Reqs \ {r} : /\ hep[q] = hep[r] /\ InCriticalSection(q)
                                       /\ ~HWaitsForLock(q)
    /\ (regLock \/ \E e \in Endpoints : pendLock[e] \/ sidLock[e]) =>
          ENABLED HolderStep

\* stop_server holds the registry lock and waits for a pending-table lock
\* that a request holds for its insert, while a second request waits for
\* the same lock on its deny path
C19_Witness ==
    \E r1 \in Reqs, r2 \in Reqs :
        /\ call.pc = "stop_pending" /\ call.ent = hep[r1] /\ CallWaitsForLock
        /\ hpc[r1] = "inserting" /\ hguard[r1] = "pending"
        /\ hep[r2] = hep[r1] /\ hpc[r2] = "deny" /\ HWaitsForLock(r2)

\* endpoint e was registered and its entry was dropped by an insert under
\* its key, not by stop_server
Evicted(e) ==
    /\ e \in 1..nextEp /\ e \notin starting
    /\ ~txAlive[e] /\ ~shutdown[e]

\* the insert of endpoint e under key k, which held endpoint old, has the
\* effect of an eviction
Evicts(e, k, old) ==
    /\ servers'[k] = e
    /\ \A j \in SessionIds : servers'[j] # old
    /\ Cardinality({j \in SessionIds : servers'[j] = e}) = 1
    /\ pending'[old] = pending[old]
    /\ chan' = chan
    /\ ~shutdown'[old] /\ ~cleaned'[old]
    /\ Evicted(old)'

\* C20 - eviction on key collision.  A start_server that registers its
\* endpoint under an identifier already registered, and a rekey_server whose
\* new identifier is registered, leave the target key holding the new or
\* relocated endpoint, and only that key holds it; the endpoint that was
\* there is in the registry no more, with its pending table and its
\* channels as they were and its shutdown switch untouched.  An evicted
\* endpoint is never looked up by a call again, and an entry in its table
\* stays there with its Sender until its own request removes it after its
\* timer has elapsed, returning the timeout deny.
C20_EvictionStep ==
    /\ \A e \in starting, k \in SessionIds, old \in Endpoints :
          (e \notin starting' /\ k = sidArc[e] /\ old = servers[k]) =>
              Evicts(e, k, old)
    /\ \A e \in Endpoints, k \in SessionIds, old \in Endpoints :
          (call.pc = "rekey_insert" /\ call' # call /\ e = call.ent
                /\ k = call.new /\ old = servers[k]) =>
              Evicts(e, k, old)
    /\ \A e \in Endpoints : Evicted(e) => Evicted(e)'
    /\ \A r \in Reqs :
          (hep[r] # NoEntry /\ Evicted(hep[r]) /\ r \in pending[hep[r]]) =>
              \/ /\ r \in pending'[hep[r]]
                 /\ chan'[r].tx = "alive" /\ chan'[r].val = NoResp
                 /\ hpc'[r] # "done"
              \/ /\ hpc[r] = "denying" /\ hpc'[r] = "done"
                 /\ hres'[r].why = "timeout"
                 /\ hres'[r].resp = TimeoutDeny
C20_EvictedUnreachable ==
    \A e \in Endpoints :
        Evicted(e) =>
            /\ \A k \in SessionIds : servers[k] # e
            /\ ~(CallRunning /\ call.ent = e)
C20_Eviction == []C20_EvictedUnreachable /\ [][C20_EvictionStep]_vars

\* a request of an evicted endpoint has returned the timeout deny after a
\* resolve_prompt under its session id found the endpoint that replaced its
\* own and failed with "No pending prompt"
C20_Witness ==
    \E r \in Reqs :
        /\ Evicted(hep[r])
        /\ hpc[r] = "done" /\ hres[r].why = "timeout" /\ okCount[r] = 0
        /\ call.pc = "returned" /\ call.op = "resolve" /\ call.pid = r
        /\ call.res = "PromptNotFound" /\ call.sid = hsid[r]
        /\ servers[call.sid] \notin {NoEntry, hep[r]}

====
